---------------------------- MODULE Spec2Model ----------------------------
(***************************************************************************)
(* Model of the binary module decoder of package binary (reader.go,        *)
(* module.go, types.go, errors.go).                                        *)
(*                                                                         *)
(* Bytes are integers 0..255.  A uint32/uint64 value is a sequence of four *)
(* 16-bit limbs, least significant first, so that values up to 2^64-1 are  *)
(* exact.  A reader is its remaining byte slice.  Every read returns a     *)
(* record [err, v, d, bad]: err is the panic value (NoErr when the read    *)
(* returned), v the value read, d the slice left, bad the error of an      *)
(* illegal discriminator byte the read has seen (a history of the read).   *)
(* After a panic d is the slice the panicking reader was left with.        *)
(*                                                                         *)
(* Slice allocation (make) is taken to succeed.                            *)
(***************************************************************************)
EXTENDS Integers, Sequences, FiniteSets, TLC

(***************************************************************************)
(* Program constants.                                                      *)
(***************************************************************************)
SecCustomID == 0
SecTypeID == 1
SecImportID == 2
SecFuncID == 3
SecTableID == 4
SecMemID == 5
SecGlobalID == 6
SecExportID == 7
SecStartID == 8
SecElemID == 9
SecCodeID == 10
SecDataID == 11

ImportTagFunc == 0
ImportTagTable == 1
ImportTagMem == 2
ImportTagGlobal == 3

ExportTagFunc == 0
ExportTagTable == 1
ExportTagMem == 2
ExportTagGlobal == 3

ValTypeI32 == 127
ValTypeI64 == 126
ValTypeF32 == 125
ValTypeF64 == 124
FtTag == 96
FuncRef == 112
MutConst == 0
MutVar == 1

ExprEnd == 11

\* 0x6D736100 and 0x00000001 as limbs
MagicNumber == <<24832, 28019, 0, 0>>
Version == <<1, 0, 0, 0>>
\* math.MaxUint32 as a uint64
MaxUint32 == <<65535, 65535, 0, 0>>

(***************************************************************************)
(* Errors.  A panic value is a tuple: the message (or format string) and,  *)
(* for fmt.Errorf, its argument.                                           *)
(***************************************************************************)
NoErr == <<>>
errUnexpectedEnd == <<"unexpected end of section or function">>
errIntTooLong == <<"integer representation too long">>
errIntTooLarge == <<"integer too large">>
errMalformedUTF8Encoding == <<"malformed UTF-8 encoding">>

Errorf(format, arg) == <<format, arg>>

Ok(v, d) == [err |-> NoErr, v |-> v, d |-> d, bad |-> NoErr]
Panic(e, d) == [err |-> e, v |-> <<>>, d |-> d, bad |-> NoErr]
WithBad(r, b) == [r EXCEPT !.bad = b]

(***************************************************************************)
(* Limb arithmetic.                                                        *)
(***************************************************************************)
Pow2(k) == CASE k = 0 -> 1 [] k = 1 -> 2 [] k = 2 -> 4 [] k = 3 -> 8
             [] k = 4 -> 16 [] k = 5 -> 32 [] k = 6 -> 64 [] k = 7 -> 128
             [] k = 8 -> 256 [] k = 9 -> 512 [] k = 10 -> 1024
             [] k = 11 -> 2048 [] k = 12 -> 4096 [] k = 13 -> 8192
             [] k = 14 -> 16384 [] k = 15 -> 32768 [] OTHER -> 65536

Limb == Pow2(16)
Zero64 == <<0, 0, 0, 0>>

\* int(n) of a uint32 n, for the n the model can compare with a length
FitsInt(x) == x[2] < 32768 /\ x[3] = 0 /\ x[4] = 0
ToInt(x) == x[1] + Limb * x[2]

\* k < int(n), k an int (a length or a loop index), n a uint32
IntLess(k, x) == IF FitsInt(x) THEN k < ToInt(x) ELSE TRUE

\* uint32(x) of a uint64
Uint32(x) == <<x[1], x[2], 0, 0>>

\* x + y modulo 2^64
Add64(x, y) ==
    LET s1 == x[1] + y[1]
        s2 == x[2] + y[2] + (s1 \div Limb)
        s3 == x[3] + y[3] + (s2 \div Limb)
        s4 == x[4] + y[4] + (s3 \div Limb)
    IN  <<s1 % Limb, s2 % Limb, s3 % Limb, s4 % Limb>>

\* x >= y
Geq64(x, y) ==
    IF x[4] # y[4] THEN x[4] > y[4]
    ELSE IF x[3] # y[3] THEN x[3] > y[3]
    ELSE IF x[2] # y[2] THEN x[2] > y[2]
    ELSE x[1] >= y[1]

\* result | (g << shift), g a 7-bit group whose bits are clear in result
OrShl(result, g, shift) ==
    LET idx == shift \div 16
        wide == g * Pow2(shift % 16)
        lo == wide % Limb
        hi == wide \div Limb
        at(k) == IF k = idx + 1 THEN result[k] + lo
                 ELSE IF k = idx + 2 THEN result[k] + hi
                 ELSE result[k]
    IN  <<at(1), at(2), at(3), at(4)>>

(***************************************************************************)
(* Sequencing.  Bind(v, F) is F(v) with v evaluated once; Then(r, K) is    *)
(* the rest K of a decoder after the read r: a panic of r is the panic of  *)
(* the decoder, and K goes on from what r returned.                        *)
(***************************************************************************)
Bind(v, F(_)) == CHOOSE x \in {F(r) : r \in {v}} : TRUE
Then(r, K(_)) == Bind(r, LAMBDA x : IF x.err # NoErr THEN x ELSE K(x))

(***************************************************************************)
(* Variable-length integers (leb128).                                      *)
(***************************************************************************)
RECURSIVE VarUintLoop(_, _, _, _)
VarUintLoop(data, size, i, result) ==
    IF i >= Len(data) THEN [err |-> errUnexpectedEnd, n |-> Zero64, w |-> 0]
    ELSE
      Bind(data[i + 1], LAMBDA b :
        IF i = size \div 7 /\ b >= 128
          THEN [err |-> errIntTooLong, n |-> Zero64, w |-> 0]
        ELSE IF i = size \div 7 /\ (b \div Pow2(size - i * 7)) > 0
          THEN [err |-> errIntTooLarge, n |-> Zero64, w |-> 0]
        ELSE
          Bind(OrShl(result, b % 128, i * 7), LAMBDA r :
            IF b < 128 THEN [err |-> NoErr, n |-> r, w |-> i + 1]
            ELSE VarUintLoop(data, size, i + 1, r)))

decodeVarUint(data, size) == VarUintLoop(data, size, 0, Zero64)

(***************************************************************************)
(* Byte cursor and primitive reads.                                        *)
(***************************************************************************)
Drop(d, k) == SubSeq(d, k + 1, Len(d))
Take(d, k) == SubSeq(d, 1, k)

remaining(d) == Len(d)

readByte(d) ==
    IF Len(d) < 1 THEN Panic(errUnexpectedEnd, d)
    ELSE Ok(d[1], Drop(d, 1))

\* mutant: the bytes taken most significant first
BigEndianUint32(d) == <<d[4] + 256 * d[3], d[2] + 256 * d[1], 0, 0>>

\* binary.LittleEndian.Uint32
LittleEndianUint32(d) == <<d[1] + 256 * d[2], d[3] + 256 * d[4], 0, 0>>

readU32(d) ==
    IF Len(d) < 4 THEN Panic(errUnexpectedEnd, d)
    ELSE Ok(LittleEndianUint32(d), Drop(d, 4))

readVarU32(d) ==
    Bind(decodeVarUint(d, 32), LAMBDA r :
      IF r.err # NoErr THEN Panic(r.err, d)
      ELSE Ok(Uint32(r.n), Drop(d, r.w)))

\* mutant: no length check before slicing, so a length past the end is the
\* runtime's slice-bounds panic
readBytesUnchecked(d) ==
    Then(readVarU32(d), LAMBDA n :
      IF IntLess(Len(n.d), n.v)
        THEN Panic(<<"runtime error: slice bounds out of range">>, n.d)
      ELSE Ok(Take(n.d, ToInt(n.v)), Drop(n.d, ToInt(n.v))))

readBytes(d) ==
    Then(readVarU32(d), LAMBDA n :
      IF IntLess(Len(n.d), n.v) THEN Panic(errUnexpectedEnd, n.d)
      ELSE Ok(Take(n.d, ToInt(n.v)), Drop(n.d, ToInt(n.v))))

\* unicode/utf8.Valid
Cont(b) == b >= 128 /\ b <= 191
RECURSIVE utf8Valid(_)
utf8Valid(p) ==
    IF Len(p) = 0 THEN TRUE
    ELSE IF p[1] < 128 THEN utf8Valid(Drop(p, 1))
    ELSE IF p[1] >= 194 /\ p[1] <= 223
      THEN Len(p) >= 2 /\ Cont(p[2]) /\ utf8Valid(Drop(p, 2))
    ELSE IF p[1] >= 224 /\ p[1] <= 239
      THEN /\ Len(p) >= 3
           /\ p[2] >= (IF p[1] = 224 THEN 160 ELSE 128)
           /\ p[2] <= (IF p[1] = 237 THEN 159 ELSE 191)
           /\ Cont(p[3])
           /\ utf8Valid(Drop(p, 3))
    ELSE IF p[1] >= 240 /\ p[1] <= 244
      THEN /\ Len(p) >= 4
           /\ p[2] >= (IF p[1] = 240 THEN 144 ELSE 128)
           /\ p[2] <= (IF p[1] = 244 THEN 143 ELSE 191)
           /\ Cont(p[3])
           /\ Cont(p[4])
           /\ utf8Valid(Drop(p, 4))
    ELSE FALSE

readName(d) ==
    Then(readBytes(d), LAMBDA b :
      IF ~utf8Valid(b.v) THEN Panic(errMalformedUTF8Encoding, b.d)
      ELSE b)

(***************************************************************************)
(* Structural decoders.  Go evaluates the fields of a composite literal in *)
(* order, so every field is read before the check that follows the literal.*)
(***************************************************************************)
readValType(d) ==
    Then(readByte(d), LAMBDA vt :
      IF vt.v \in {ValTypeI32, ValTypeI64, ValTypeF32, ValTypeF64} THEN vt
      ELSE Panic(Errorf("malformed value type: %d", vt.v), vt.d))

RECURSIVE ValTypesLoop(_, _, _, _)
ValTypesLoop(d, count, i, vec) ==
    IF ~IntLess(i, count) THEN Ok(vec, d)
    ELSE Then(readValType(d), LAMBDA e :
           ValTypesLoop(e.d, count, i + 1, Append(vec, e.v)))

readValTypes(d) ==
    Then(readVarU32(d), LAMBDA c : ValTypesLoop(c.d, c.v, 0, <<>>))

RECURSIVE IndicesLoop(_, _, _, _)
IndicesLoop(d, count, i, vec) ==
    IF ~IntLess(i, count) THEN Ok(vec, d)
    ELSE Then(readVarU32(d), LAMBDA e :
           IndicesLoop(e.d, count, i + 1, Append(vec, e.v)))

readIndices(d) ==
    Then(readVarU32(d), LAMBDA c : IndicesLoop(c.d, c.v, 0, <<>>))

\* the error of a function-type tag byte, NoErr for the legal one
FuncTypeTagErr(tag) ==
    IF tag # FtTag THEN Errorf("invalid functype tag: %d", tag) ELSE NoErr

\* a read made after the discriminator byte whose error is b was read
After(b, r) == IF r.err # NoErr THEN WithBad(r, b) ELSE r

\* the check of a discriminator byte whose error is b, once r has returned
Checked(b, r) == IF b # NoErr THEN WithBad(Panic(b, r.d), b) ELSE r

readFuncType(d) ==
    Then(readByte(d), LAMBDA tag :
      Then(After(FuncTypeTagErr(tag.v), readValTypes(tag.d)), LAMBDA params :
        Then(After(FuncTypeTagErr(tag.v), readValTypes(params.d)),
          LAMBDA results :
            Checked(FuncTypeTagErr(tag.v),
                    Ok([Tag |-> tag.v, ParamTypes |-> params.v,
                        ResultTypes |-> results.v], results.d)))))

readLimits(d) ==
    Then(readByte(d), LAMBDA tag :
      Then(readVarU32(tag.d), LAMBDA min :
        IF tag.v = 1
          THEN Then(readVarU32(min.d), LAMBDA max :
                 Ok([Tag |-> tag.v, Min |-> min.v, Max |-> max.v], max.d))
          ELSE Ok([Tag |-> tag.v, Min |-> min.v, Max |-> Zero64], min.d)))

ElemTypeErr(et) ==
    IF et # FuncRef THEN Errorf("invalid elemtype: %d", et) ELSE NoErr

readTableType(d) ==
    Then(readByte(d), LAMBDA et :
      Then(After(ElemTypeErr(et.v), readLimits(et.d)), LAMBDA limits :
        Checked(ElemTypeErr(et.v),
                Ok([ElemType |-> et.v, Limits |-> limits.v], limits.d))))

MutErr(mut) ==
    IF mut \in {MutConst, MutVar} THEN NoErr
    ELSE Errorf("malformed mutability: %d", mut)

readGlobalType(d) ==
    Then(readValType(d), LAMBDA vt :
      Then(readByte(vt.d), LAMBDA mut :
        Checked(MutErr(mut.v),
                Ok([ValType |-> vt.v, Mut |-> mut.v], mut.d))))

\* scans to the first terminator byte; the expression is not retained
RECURSIVE readExpr(_)
readExpr(d) ==
    Then(readByte(d), LAMBDA b :
      IF b.v # ExprEnd THEN readExpr(b.d) ELSE Ok(<<>>, b.d))

readImportDesc(d) ==
    Then(readByte(d), LAMBDA tag :
      IF tag.v = ImportTagFunc
        THEN Then(readVarU32(tag.d), LAMBDA r :
               Ok([Tag |-> tag.v, FuncType |-> r.v], r.d))
      ELSE IF tag.v = ImportTagTable
        THEN Then(readTableType(tag.d), LAMBDA r :
               Ok([Tag |-> tag.v, Table |-> r.v], r.d))
      ELSE IF tag.v = ImportTagMem
        THEN Then(readLimits(tag.d), LAMBDA r :
               Ok([Tag |-> tag.v, Mem |-> r.v], r.d))
      ELSE IF tag.v = ImportTagGlobal
        THEN Then(readGlobalType(tag.d), LAMBDA r :
               Ok([Tag |-> tag.v, Global |-> r.v], r.d))
      ELSE Checked(Errorf("invalid import desc tag: %d", tag.v), tag))

readImport(d) ==
    Then(readName(d), LAMBDA mod :
      Then(readName(mod.d), LAMBDA name :
        Then(readImportDesc(name.d), LAMBDA desc :
          Ok([Module |-> mod.v, Name |-> name.v, Desc |-> desc.v], desc.d))))

\* the Global literal of readGlobalSec
readGlobal(d) ==
    Then(readGlobalType(d), LAMBDA type :
      Then(readExpr(type.d), LAMBDA init :
        Ok([Type |-> type.v, Init |-> init.v], init.d)))

ExportTagErr(tag) ==
    IF tag \in {ExportTagFunc, ExportTagTable, ExportTagMem, ExportTagGlobal}
    THEN NoErr
    ELSE Errorf("invalid export desc tag: %d", tag)

readExportDesc(d) ==
    Then(readByte(d), LAMBDA tag :
      Then(After(ExportTagErr(tag.v), readVarU32(tag.d)), LAMBDA idx :
        Checked(ExportTagErr(tag.v),
                Ok([Tag |-> tag.v, Idx |-> idx.v], idx.d))))

readExport(d) ==
    Then(readName(d), LAMBDA name :
      Then(readExportDesc(name.d), LAMBDA desc :
        Ok([Name |-> name.v, Desc |-> desc.v], desc.d)))

readElem(d) ==
    Then(readVarU32(d), LAMBDA table :
      Then(readExpr(table.d), LAMBDA offset :
        Then(readIndices(offset.d), LAMBDA init :
          Ok([Table |-> table.v, Offset |-> offset.v, Init |-> init.v],
             init.d))))

readData(d) ==
    Then(readVarU32(d), LAMBDA mem :
      Then(readExpr(mem.d), LAMBDA offset :
        Then(readBytes(offset.d), LAMBDA init :
          Ok([Mem |-> mem.v, Offset |-> offset.v, Init |-> init.v],
             init.d))))

readLocals(d) ==
    Then(readVarU32(d), LAMBDA n :
      Then(readValType(n.d), LAMBDA type :
        Ok([N |-> n.v, Type |-> type.v], type.d)))

RECURSIVE LocalsLoop(_, _, _, _)
LocalsLoop(d, count, i, vec) ==
    IF ~IntLess(i, count) THEN Ok(vec, d)
    ELSE Then(readLocals(d), LAMBDA e :
           LocalsLoop(e.d, count, i + 1, Append(vec, e.v)))

readLocalsVec(d) ==
    Then(readVarU32(d), LAMBDA c : LocalsLoop(c.d, c.v, 0, <<>>))

\* uint64 sum of the repeat-counts
RECURSIVE GetLocalCount(_)
GetLocalCount(locals) ==
    IF locals = <<>> THEN Zero64
    ELSE Add64(GetLocalCount(Take(locals, Len(locals) - 1)),
               locals[Len(locals)].N)

\* mutant: the limit itself is let through
TooManyLocalsAbove(localCount) == Geq64(localCount, <<0, 0, 1, 0>>)

TooManyLocals(localCount) == Geq64(localCount, MaxUint32)

\* a panic of the reader of a sub-slice, or what it returned, with the
\* enclosing reader at d
Within(r, d) == [r EXCEPT !.d = d]

\* mutant: the locals are read from the enclosing reader, not from the
\* entry's bytes
readCodeUnbounded(d) ==
    Then(readBytes(d), LAMBDA bytes :
      Then(Within(readLocalsVec(readVarU32(d).d), bytes.d), LAMBDA locals :
        Bind(GetLocalCount(locals.v), LAMBDA localCount :
          IF TooManyLocals(localCount)
            THEN Panic(Errorf("too many locals: %d", localCount), bytes.d)
          ELSE Ok([Locals |-> locals.v, Expr |-> <<>>], bytes.d))))

\* the code reader is a reader of its own over the entry's bytes; what it
\* leaves unread is dropped, and Expr stays nil
readCode(d) ==
    Then(readBytes(d), LAMBDA bytes :
      Then(Within(readLocalsVec(bytes.v), bytes.d), LAMBDA locals :
        Bind(GetLocalCount(locals.v), LAMBDA localCount :
          IF TooManyLocals(localCount)
            THEN Panic(Errorf("too many locals: %d", localCount), bytes.d)
          ELSE Ok([Locals |-> locals.v, Expr |-> <<>>], bytes.d))))

\* Bytes is what the section's reader is left with after the name
readCustomSec(d) ==
    Then(readBytes(d), LAMBDA bytes :
      Bind(readName(bytes.v), LAMBDA name :
        IF name.err # NoErr THEN Within(name, bytes.d)
        ELSE Ok([Name |-> name.v, Bytes |-> name.d], bytes.d)))

(***************************************************************************)
(* The decode of one input, as the steps of readModule and readSections.   *)
(* A decoder state is a record s:                                          *)
(*   data                 reader.data                                      *)
(*   module               the Module being filled in                       *)
(*   pc                   where readModule is                              *)
(*   err                  the panic value, NoErr when none                 *)
(*   prevSecID, secID, n, remainingBeforeRead   locals of readSections     *)
(*   count, i, vec        the vector loop of the section being read        *)
(*   bad                  the error of an illegal discriminator byte read  *)
(*   ids                  the section ids read so far                      *)
(***************************************************************************)
EmptyModule ==
    [Magic |-> Zero64, Version |-> Zero64, CustomSecs |-> <<>>,
     TypeSec |-> <<>>, ImportSec |-> <<>>, FuncSec |-> <<>>,
     TableSec |-> <<>>, MemSec |-> <<>>, GlobalSec |-> <<>>,
     ExportSec |-> <<>>, StartSec |-> <<>>, ElemSec |-> <<>>,
     CodeSec |-> <<>>, DataSec |-> <<>>]

Start(bytes) ==
    [data |-> bytes, module |-> EmptyModule, pc |-> "magic", err |-> NoErr,
     prevSecID |-> 0, secID |-> 0, n |-> Zero64, remainingBeforeRead |-> 0,
     count |-> Zero64, i |-> 0, vec |-> <<>>, bad |-> NoErr, ids |-> <<>>]

\* a panic e with the reader at d: readModule is left for the deferred
\* function of Decode
Raise(s, e, d) == [s EXCEPT !.err = e, !.data = d, !.pc = "recover"]

ReadMagicStep(s) ==
    IF remaining(s.data) < 4
      THEN Raise(s, <<"unexpected end of magic header">>, s.data)
    ELSE
      Bind(readU32(s.data), LAMBDA r :
        IF r.v # MagicNumber
          THEN Raise([s EXCEPT !.module.Magic = r.v],
                     <<"magic header not detected">>, r.d)
        ELSE [s EXCEPT !.module.Magic = r.v, !.data = r.d,
                       !.pc = "version"])

ReadVersionStep(s) ==
    IF remaining(s.data) < 4
      THEN Raise(s, <<"unexpected end of binary version">>, s.data)
    ELSE
      Bind(readU32(s.data), LAMBDA r :
        IF r.v # Version
          THEN Raise([s EXCEPT !.module.Version = r.v],
                     Errorf("unknown binary version: %d", r.v), r.d)
        ELSE [s EXCEPT !.module.Version = r.v, !.data = r.d,
                       !.pc = "sections"])

\* the loop condition of readSections is false: readSections returns
SectionsDoneStep(s) == [s EXCEPT !.pc = "lengths"]

\* the section id is read
ReadID(s, id) == [s EXCEPT !.ids = Append(@, id), !.secID = id]

\* one iteration of the loop for a custom section
ReadCustomSecStep(s) ==
    Bind(readByte(s.data), LAMBDA id :
      Bind(readCustomSec(id.d), LAMBDA r :
        IF r.err # NoErr THEN Raise(ReadID(s, id.v), r.err, r.d)
        ELSE [ReadID(s, id.v) EXCEPT !.module.CustomSecs = Append(@, r.v),
                                     !.data = r.d]))

MalformedSecID(secID) == secID > SecDataID

\* mutant: a repeated id is let through
OutOfOrderBelow(secID, prevSecID) == secID < prevSecID

OutOfOrder(secID, prevSecID) == secID <= prevSecID

\* the section decoder secID is dispatched to, up to its vector loop: the
\* count is read (readStartSec reads the index and has no loop)
BeginSection(s, c) ==
    IF c.err # NoErr THEN Raise(s, c.err, c.d)
    ELSE IF s.secID = SecStartID
      THEN [s EXCEPT !.vec = <<c.v>>, !.data = c.d, !.pc = "entries"]
    ELSE [s EXCEPT !.count = c.v, !.data = c.d, !.pc = "entries"]

\* one iteration of the loop for a non-custom id, up to the vector loop of
\* the section's decoder: the id checks, the declared length, the count
ReadSectionHeaderStep(s) ==
    Bind(readByte(s.data), LAMBDA id :
      IF MalformedSecID(id.v)
        THEN Raise(ReadID(s, id.v),
                   Errorf("malformed section id: %d", id.v), id.d)
      ELSE IF OutOfOrder(id.v, s.prevSecID)
        THEN Raise(ReadID(s, id.v),
                   Errorf("junk after last section, id: %d", id.v), id.d)
      ELSE
        Bind(readVarU32(id.d), LAMBDA n :
          IF n.err # NoErr
            THEN Raise([ReadID(s, id.v) EXCEPT !.prevSecID = id.v],
                       n.err, n.d)
          ELSE BeginSection(
                 [ReadID(s, id.v) EXCEPT
                    !.prevSecID = id.v, !.n = n.v,
                    !.remainingBeforeRead = remaining(n.d),
                    !.count = Zero64, !.i = 0, !.vec = <<>>],
                 readVarU32(n.d))))

\* the element decoder readNonCustomSec dispatches to
ReadEntryOf(secID, d) ==
    CASE secID = SecTypeID -> readFuncType(d)
      [] secID = SecImportID -> readImport(d)
      [] secID = SecFuncID -> readVarU32(d)
      [] secID = SecTableID -> readTableType(d)
      [] secID = SecMemID -> readLimits(d)
      [] secID = SecGlobalID -> readGlobal(d)
      [] secID = SecExportID -> readExport(d)
      [] secID = SecElemID -> readElem(d)
      [] secID = SecCodeID -> readCode(d)
      [] secID = SecDataID -> readData(d)

\* one iteration of the vector loop
ReadEntryStep(s) ==
    Bind(ReadEntryOf(s.secID, s.data), LAMBDA r :
      IF r.err # NoErr THEN Raise([s EXCEPT !.bad = r.bad], r.err, r.d)
      ELSE [s EXCEPT !.vec = Append(@, r.v), !.i = @ + 1, !.data = r.d])

FieldOf(secID) ==
    CASE secID = SecTypeID -> "TypeSec"
      [] secID = SecImportID -> "ImportSec"
      [] secID = SecFuncID -> "FuncSec"
      [] secID = SecTableID -> "TableSec"
      [] secID = SecMemID -> "MemSec"
      [] secID = SecGlobalID -> "GlobalSec"
      [] secID = SecExportID -> "ExportSec"
      [] secID = SecStartID -> "StartSec"
      [] secID = SecElemID -> "ElemSec"
      [] secID = SecCodeID -> "CodeSec"
      [] secID = SecDataID -> "DataSec"

\* mutant: only a decoder that stopped short of the declared length is caught
SizeNotShort(rem, n, remainingBeforeRead) ==
    FitsInt(n) /\ rem + ToInt(n) <= remainingBeforeRead

SizeMatches(rem, n, remainingBeforeRead) ==
    FitsInt(n) /\ rem + ToInt(n) = remainingBeforeRead

\* the section's decoder returns: the field is set, the size is checked
EndSectionStep(s) ==
    IF ~SizeMatches(remaining(s.data), s.n, s.remainingBeforeRead)
      THEN Raise([s EXCEPT !.module = [@ EXCEPT ![FieldOf(s.secID)] = s.vec]],
                 Errorf("section size mismatch, id: %d", s.secID), s.data)
    ELSE [s EXCEPT !.module = [@ EXCEPT ![FieldOf(s.secID)] = s.vec],
                   !.pc = "sections"]

\* mutant: only missing code entries are caught
LengthsAtMost(module) == Len(module.FuncSec) <= Len(module.CodeSec)

LengthsConsistent(module) == Len(module.FuncSec) = Len(module.CodeSec)

\* the checks of readModule after readSections
CheckStep(s) ==
    IF ~LengthsConsistent(s.module)
      THEN Raise(s, <<"function and code section have inconsistent lengths">>,
                 s.data)
    ELSE IF remaining(s.data) > 0
      THEN Raise(s, <<"junk after last section">>, s.data)
    ELSE [s EXCEPT !.pc = "return"]

\* Decode returns its named results: module as readModule left it, and err
\* as the deferred function set it
ReturnStep(s) == [s EXCEPT !.pc = "done"]

StepOf(s) ==
    CASE s.pc = "magic" -> ReadMagicStep(s)
      [] s.pc = "version" -> ReadVersionStep(s)
      [] s.pc = "sections" /\ remaining(s.data) = 0 -> SectionsDoneStep(s)
      [] s.pc = "sections" /\ remaining(s.data) > 0
           /\ s.data[1] = SecCustomID -> ReadCustomSecStep(s)
      [] s.pc = "sections" /\ remaining(s.data) > 0
           /\ s.data[1] # SecCustomID -> ReadSectionHeaderStep(s)
      [] s.pc = "entries" /\ IntLess(s.i, s.count) -> ReadEntryStep(s)
      [] s.pc = "entries" /\ ~IntLess(s.i, s.count) -> EndSectionStep(s)
      [] s.pc = "lengths" -> CheckStep(s)
      [] s.pc \in {"recover", "return"} -> ReturnStep(s)

\* the steps in turn, to the return of Decode
RECURSIVE Run(_)
Run(s0) ==
    Bind(s0, LAMBDA s : IF s.pc = "done" THEN s ELSE Run(StepOf(s)))

\* Decode(data): the final decoder state; its module and err are returned
Decode(bytes) == Run(Start(bytes))

(***************************************************************************)
(* Inputs: a header followed by up to MaxSecs chunks of a pool of          *)
(* well-formed and malformed sections, and the proper prefixes of the      *)
(* inputs built from well-formed sections.                                 *)
(***************************************************************************)
MaxSecs == 2

Header == <<0, 97, 115, 109, 1, 0, 0, 0>>
BadHeaders ==
    { <<0, 97, 115, 110, 1, 0, 0, 0>>, <<0, 97, 115, 109, 2, 0, 0, 0>>,
      <<109, 115, 97, 0, 1, 0, 0, 0>>, <<0, 97, 115, 109, 0, 0, 0, 1>>,
      <<0, 97, 115, 110>> }

\* well-formed sections
WellFormedPool ==
    { <<0, 3, 1, 97, 255>>,
      <<1, 5, 1, 96, 0, 1, 127>>,
      <<2, 7, 1, 1, 97, 1, 98, 0, 0>>,
      <<3, 2, 1, 0>>,
      <<3, 3, 2, 0, 0>>,
      <<4, 4, 1, 112, 0, 1>>,
      <<5, 4, 1, 1, 1, 2>>,
      <<6, 6, 1, 127, 0, 65, 0, 11>>,
      <<7, 5, 1, 1, 97, 0, 0>>,
      <<8, 1, 0>>,
      <<9, 7, 1, 0, 65, 0, 11, 1, 0>>,
      <<10, 4, 1, 2, 0, 11>>,
      <<10, 6, 1, 4, 1, 2, 127, 11>>,
      <<11, 7, 1, 0, 65, 0, 11, 1, 255>> }

\* sections with something wrong or unusual in them
OtherPool ==
    { <<0, 2, 1, 255>>, <<0, 2, 2, 97>>, <<0, 5, 1, 97>>,
      <<1, 5, 1, 97, 0, 1, 127>>, <<1, 5, 1, 97, 0, 1, 5>>, <<1, 2, 1, 97>>,
      <<2, 9, 1, 1, 97, 1, 98, 1, 112, 0, 1>>,
      <<2, 8, 1, 1, 97, 1, 98, 2, 0, 1>>,
      <<2, 8, 1, 1, 97, 1, 98, 3, 127, 0>>,
      <<2, 7, 1, 1, 97, 1, 98, 4, 0>>,
      <<3, 3, 1, 0, 0>>, <<3, 128, 128, 128, 128, 128, 0>>,
      <<3, 255, 255, 255, 255, 127>>,
      <<4, 4, 1, 113, 0, 1>>, <<4, 2, 1, 113>>,
      <<6, 6, 1, 127, 2, 65, 0, 11>>, <<6, 4, 1, 127, 0, 65>>,
      <<7, 5, 1, 1, 97, 4, 0>>, <<7, 4, 1, 1, 97, 4>>,
      <<10, 4, 1, 2, 0, 1>>, <<10, 7, 2, 2, 0, 11, 2, 0, 11>>,
      <<10, 10, 1, 8, 1, 254, 255, 255, 255, 15, 127, 11>>,
      <<10, 12, 1, 10, 2, 254, 255, 255, 255, 15, 127, 1, 127, 11>>,
      <<10, 16, 1, 14, 2, 255, 255, 255, 255, 15, 127,
        255, 255, 255, 255, 15, 127, 11>>,
      <<10, 3, 1, 1, 1>>, <<10, 3, 1, 5, 0>>,
      <<12, 0>> }

Pool == WellFormedPool \cup OtherPool

RECURSIVE Concats(_, _)
Concats(pool, k) ==
    IF k = 0 THEN {<<>>}
    ELSE Concats(pool, k - 1)
           \cup {b \o c : b \in Concats(pool, k - 1), c \in pool}

Prefixes(b) == {Take(b, k) : k \in 0..Len(b)}

\* the inputs built from well-formed sections, and all of them
WellFormedFulls == {Header \o b : b \in Concats(WellFormedPool, MaxSecs)}

Fulls ==
    {Header \o b : b \in Concats(Pool, MaxSecs)}
      \cup {h \o b : h \in BadHeaders, b \in Concats(Pool, 1)}

(***************************************************************************)
(* The state machine: one Decode call on a chosen input.                   *)
(***************************************************************************)
VARIABLES full, input, data, module, pc, err, prevSecID, secID, n,
          remainingBeforeRead, count, i, vec, bad, ids

vars == <<full, input, data, module, pc, err, prevSecID, secID, n,
          remainingBeforeRead, count, i, vec, bad, ids>>

St ==
    [data |-> data, module |-> module, pc |-> pc, err |-> err,
     prevSecID |-> prevSecID, secID |-> secID, n |-> n,
     remainingBeforeRead |-> remainingBeforeRead,
     count |-> count, i |-> i, vec |-> vec, bad |-> bad, ids |-> ids]

Apply(s) ==
    /\ data' = s.data
    /\ module' = s.module
    /\ pc' = s.pc
    /\ err' = s.err
    /\ prevSecID' = s.prevSecID
    /\ secID' = s.secID
    /\ n' = s.n
    /\ remainingBeforeRead' = s.remainingBeforeRead
    /\ count' = s.count
    /\ i' = s.i
    /\ vec' = s.vec
    /\ bad' = s.bad
    /\ ids' = s.ids
    /\ UNCHANGED <<full, input>>

Init ==
    /\ \/ full \in Fulls /\ input = full
       \/ full \in WellFormedFulls /\ input \in Prefixes(full)
    /\ data = input
    /\ module = EmptyModule
    /\ pc = "magic"
    /\ err = NoErr
    /\ prevSecID = 0
    /\ secID = 0
    /\ n = Zero64
    /\ remainingBeforeRead = 0
    /\ count = Zero64
    /\ i = 0
    /\ vec = <<>>
    /\ bad = NoErr
    /\ ids = <<>>

ReadMagic == pc = "magic" /\ Apply(ReadMagicStep(St))

ReadVersion == pc = "version" /\ Apply(ReadVersionStep(St))

SectionsDone ==
    /\ pc = "sections"
    /\ remaining(data) = 0
    /\ Apply(SectionsDoneStep(St))

ReadCustomSection ==
    /\ pc = "sections"
    /\ remaining(data) > 0
    /\ data[1] = SecCustomID
    /\ Apply(ReadCustomSecStep(St))

ReadSectionHeader ==
    /\ pc = "sections"
    /\ remaining(data) > 0
    /\ data[1] # SecCustomID
    /\ Apply(ReadSectionHeaderStep(St))

ReadEntry ==
    /\ pc = "entries"
    /\ IntLess(i, count)
    /\ Apply(ReadEntryStep(St))

EndSection ==
    /\ pc = "entries"
    /\ ~IntLess(i, count)
    /\ Apply(EndSectionStep(St))

Check == pc = "lengths" /\ Apply(CheckStep(St))

Return == pc \in {"recover", "return"} /\ Apply(ReturnStep(St))

Next ==
    \/ ReadMagic
    \/ ReadVersion
    \/ SectionsDone
    \/ ReadCustomSection
    \/ ReadSectionHeader
    \/ ReadEntry
    \/ EndSection
    \/ Check
    \/ Return

Spec == Init /\ [][Next]_vars

TypeOK ==
    /\ pc \in {"magic", "version", "sections", "entries", "lengths",
               "recover", "return", "done"}
    /\ Len(data) <= Len(input)
    /\ (pc = "done") = (St = Decode(input))

(***************************************************************************)
(* Properties.                                                             *)
(***************************************************************************)
Last(q) == q[Len(q)]
Standard(q) == SelectSeq(q, LAMBDA x : x # 0)
StrictlyIncreasing(q) == \A a, b \in 1..Len(q) : a < b => q[a] < q[b]
Returned == pc = "done"
Consumed == Len(input) - Len(data)

\* C1: when Decode returns an error, the Module it returns is the empty
\* Module: nothing the aborted decode stored is exposed.
C1_AllOrNothing == (Returned /\ err # NoErr) => module = EmptyModule

\* the offsets of full at which a section starts or the input ends, by the
\* declared lengths
RECURSIVE SectionBoundaries(_, _)
SectionBoundaries(b, pos) ==
    IF pos + 2 > Len(b) THEN {pos}
    ELSE LET p == decodeVarUint(Drop(b, pos + 1), 32) IN
         IF p.err # NoErr THEN {pos}
         ELSE {pos} \cup SectionBoundaries(b, pos + 1 + p.w + p.n[1])

TruncatedInput ==
    { <<"unexpected end of section or function">>,
      <<"unexpected end of magic header">>,
      <<"unexpected end of binary version">> }

ProperPrefixOfAccepted ==
    /\ Returned
    /\ Len(input) < Len(full)
    /\ Decode(full).err = NoErr

\* C2: every proper prefix of an accepted input fails with a premature-end
\* error.
C2_TruncationFails == ProperPrefixOfAccepted => err \in TruncatedInput

\* C2, amended: a proper prefix of an accepted input fails with the
\* premature-end error of the place it is cut at (magic, version, section),
\* unless it is cut where a section starts: that prefix is a module of its
\* own, accepted when its function and code sections have equal lengths and
\* failing with the inconsistent-lengths error otherwise.
C2_TruncationAmended ==
    ProperPrefixOfAccepted =>
      LET k == Len(input) IN
      IF k < 4 THEN err = <<"unexpected end of magic header">>
      ELSE IF k < 8 THEN err = <<"unexpected end of binary version">>
      ELSE IF k \in SectionBoundaries(full, 8)
        THEN IF Len(module.FuncSec) = Len(module.CodeSec)
               THEN err = NoErr
               ELSE err = <<"function and code section have inconsistent lengths">>
      ELSE err = <<"unexpected end of section or function">>

C2_Witness ==
    /\ ProperPrefixOfAccepted
    /\ Len(input) > 8
    /\ Len(input) \in SectionBoundaries(full, 8)
    /\ err = <<"function and code section have inconsistent lengths">>

\* C3: while no error is raised the non-custom ids read are strictly
\* increasing values in 1..11 and prevSecID is the last of them (0 when
\* there is none, so custom sections never change it); a non-custom id in
\* 1..11 that is not above an earlier non-custom id fails with "junk after
\* last section".
C3_SectionOrdering ==
    LET std == Standard(ids)
        before == IF ids = <<>> THEN <<>>
                  ELSE Standard(SubSeq(ids, 1, Len(ids) - 1))
    IN
    /\ err = NoErr =>
         /\ StrictlyIncreasing(std)
         /\ \A k \in 1..Len(std) : std[k] \in 1..11
         /\ prevSecID = (IF std = <<>> THEN 0 ELSE Last(std))
    /\ ( /\ ids # <<>>
         /\ Last(ids) \in 1..11
         /\ \E k \in 1..Len(before) : before[k] >= Last(ids) )
         => err = <<"junk after last section, id: %d", Last(ids)>>

C3_Witness ==
    /\ Returned
    /\ ids = <<1, 1>>
    /\ err = <<"junk after last section, id: %d", 1>>

\* C4: when the decoder of a standard section returns, the loop goes on
\* exactly if the bytes it consumed are the declared length, and fails with
\* "section size mismatch" otherwise; so when the loop goes on after a
\* standard section, the section's decoder has consumed its declared bytes.
C4_SectionSize ==
    [][ /\ (pc = "entries" /\ ~IntLess(i, count)) =>
             IF n = <<remainingBeforeRead - Len(data), 0, 0, 0>>
               THEN pc' = "sections" /\ err' = NoErr
               ELSE /\ pc' = "recover"
                    /\ err' = <<"section size mismatch, id: %d", secID>>
        /\ (pc = "entries" /\ pc' = "sections") =>
             n' = <<remainingBeforeRead' - Len(data'), 0, 0, 0>>
      ]_vars

\* an initializer expression has scanned into the following section
C4_Witness ==
    /\ pc = "recover"
    /\ err = <<"section size mismatch, id: %d", 6>>
    /\ remainingBeforeRead - Len(data) > n[1]

\* C5: the lengths are compared once readSections has consumed the whole
\* input; equal lengths let Decode go on, different lengths fail with the
\* inconsistent-lengths error; a Module returned without error has function
\* and code sections of equal length.
C5_FuncCodeConsistency ==
    [][ /\ pc = "lengths" =>
             /\ data = <<>>
             /\ IF Len(module.FuncSec) = Len(module.CodeSec)
                  THEN pc' = "return" /\ err' = NoErr
                  ELSE /\ pc' = "recover"
                       /\ err' = <<"function and code section have inconsistent lengths">>
        /\ (err = NoErr /\
              err' = <<"function and code section have inconsistent lengths">>)
             => pc = "lengths"
        /\ (pc' = "done" /\ err' = NoErr) =>
             Len(module'.FuncSec) = Len(module'.CodeSec)
      ]_vars

C5_Witness ==
    /\ Returned
    /\ err = <<"function and code section have inconsistent lengths">>
    /\ Len(module.FuncSec) = 2
    /\ Len(module.CodeSec) = 1

\* C6: when the decoder has read an illegal discriminator byte, the error
\* Decode returns is the invalid-tag error of that byte.
C6_TagErrorReported == (Returned /\ bad # NoErr) => err = bad

\* C7: the header errors by the bytes of the input, the canonical header
\* alone decodes to a Module with only Magic and Version set, and nothing
\* past the header is read unless the header is the canonical one.
C7_HeaderValidation ==
    LET magicOK == Len(input) >= 4 /\ SubSeq(input, 1, 4) = <<0, 97, 115, 109>>
        versionOK == Len(input) >= 8 /\ SubSeq(input, 5, 8) = <<1, 0, 0, 0>>
    IN
    /\ Returned =>
         /\ Len(input) < 4 => err = <<"unexpected end of magic header">>
         /\ (Len(input) >= 4 /\ ~magicOK) => err = <<"magic header not detected">>
         /\ (magicOK /\ Len(input) < 8)
              => err = <<"unexpected end of binary version">>
         /\ (magicOK /\ Len(input) >= 8 /\ ~versionOK)
              => /\ Len(err) = 2
                 /\ err[1] = "unknown binary version: %d"
                 /\ err[2] = <<input[5] + 256 * input[6],
                               input[7] + 256 * input[8], 0, 0>>
         /\ input = <<0, 97, 115, 109, 1, 0, 0, 0>>
              => /\ err = NoErr
                 /\ module = [EmptyModule EXCEPT
                                !.Magic = <<24832, 28019, 0, 0>>,
                                !.Version = <<1, 0, 0, 0>>]
    /\ (ids # <<>> \/ Consumed > 8) => (magicOK /\ versionOK)
    /\ Consumed > 4 => magicOK

C7_Witness ==
    /\ Returned
    /\ input = <<0, 97, 115, 109, 1, 0, 0, 0>>
    /\ err = NoErr
    /\ module.Magic = <<24832, 28019, 0, 0>>

\* the outcome of reading a length-prefixed sub-slice at d by rd, as the
\* step from d to the primed state has it: e the error, v the value a
\* successful read stored, short whether the sub-slice runs out
SubSliceBounded(d, alone, e, v, short) ==
    LET p == decodeVarUint(d, 32) IN
    p.err = NoErr =>
      IF p.n[2] # 0 \/ p.n[1] > Len(d) - p.w
        THEN e = <<"unexpected end of section or function">>
        ELSE /\ e = alone.err
             /\ e = NoErr =>
                  /\ Len(data') = Len(d) - p.w - p.n[1]
                  /\ v = alone.v
             /\ short => e = <<"unexpected end of section or function">>

\* C8: reading a custom section or a code entry moves the enclosing cursor
\* by the length prefix plus the declared length; the outcome is that of
\* reading the sub-slice with nothing after it; a sub-slice that runs out
\* fails with premature end of input whatever follows it, and so does a
\* declared length above the bytes that remain.
C8_BoundedSubReaders ==
    [][ /\ (pc = "sections" /\ Len(data) > 0 /\ data[1] = 0) =>
             LET d == Tail(data)
                 p == decodeVarUint(d, 32)
                 sub == SubSeq(d, p.w + 1, p.w + p.n[1])
             IN SubSliceBounded(d,
                    readCustomSec(SubSeq(d, 1, p.w + p.n[1])),
                    err', Last(module'.CustomSecs),
                    sub = <<>> \/ (sub[1] < 128 /\ sub[1] > Len(sub) - 1))
        /\ (pc = "entries" /\ secID = 10 /\ IntLess(i, count)) =>
             LET p == decodeVarUint(data, 32)
                 sub == SubSeq(data, p.w + 1, p.w + p.n[1])
             IN SubSliceBounded(data,
                    readCode(SubSeq(data, 1, p.w + p.n[1])),
                    err', Last(vec'),
                    sub = <<>> \/ (sub[1] \in 1..127 /\ Len(sub) < 3))
      ]_vars

\* a code entry of one byte, a count of 1 with no Locals after it, with
\* more bytes after the entry
C8_Witness ==
    /\ pc = "recover"
    /\ secID = 10
    /\ err = <<"unexpected end of section or function">>
    /\ Len(input) > 13
    /\ SubSeq(input, 9, 13) = <<10, 3, 1, 1, 1>>
    /\ Consumed = 13

\* C9: in an accepted input, the bytes of every code entry after its
\* Locals hold the terminator byte.
C9_CodeBodyTerminated ==
    ( /\ pc = "entries"
      /\ secID = 10
      /\ IntLess(i, count)
      /\ Decode(input).err = NoErr )
      => LET body == readLocalsVec(readBytes(data).v).d IN
         \E k \in 1..Len(body) : body[k] = 11

RECURSIVE SumLimb(_, _)
SumLimb(locals, k) ==
    IF locals = <<>> THEN 0
    ELSE locals[1].N[k] + SumLimb(Tail(locals), k)

\* C10: a code entry whose Locals decode is accepted when the sum of the
\* repeat-counts is below 2^32 - 1, and fails with "too many locals" and
\* the exact sum when the sum is 2^32 - 1 or more.
C10_LocalCount ==
    [][ (pc = "entries" /\ secID = 10 /\ IntLess(i, count)) =>
          LET bytes == readBytes(data)
              locals == readLocalsVec(bytes.v)
              lo == SumLimb(locals.v, 1)
              hi == SumLimb(locals.v, 2) + (lo \div 65536)
          IN
          (bytes.err = NoErr /\ locals.err = NoErr) =>
            IF hi < 65535 \/ (hi = 65535 /\ lo % 65536 < 65535)
              THEN err' = NoErr /\ Last(vec').Locals = locals.v
              ELSE err' = <<"too many locals: %d",
                            <<lo % 65536, hi % 65536, hi \div 65536, 0>>>>
      ]_vars

\* the sum is the limit itself
C10_Witness ==
    /\ pc = "recover"
    /\ secID = 10
    /\ err = <<"too many locals: %d", <<65535, 65535, 0, 0>>>>

=============================================================================
